---- MODULE Spec2Model ----
(***************************************************************************)
(* A model of DataModel (src/src/datamodel.py): the per-image object count *)
(* index, the cumulative-sum sampler, the group maps and the filter cache. *)
(*                                                                         *)
(* Python values are encoded as follows.                                   *)
(*   - an image key (a tuple of ints) is an element of Keys;               *)
(*   - a dict is a function; the dict self.data also has an iteration      *)
(*     order, dataKeys, which CPython keeps fixed while the dict is not    *)
(*     modified and which is arbitrary otherwise;                          *)
(*   - a list or numpy array is a sequence; Python index i is TLA+ index   *)
(*     i+1, and PyAt gives Python's indexing (negative indices wrap);      *)
(*   - a group key is a sequence of column values, each written as a       *)
(*     string; IntCols are the strings standing for integer columns.       *)
(* The database (dbconnect, not part of the model) is the environment: its *)
(* answers are drawn from the small sets below, and each of its calls may  *)
(* raise.                                                                  *)
(***************************************************************************)
EXTENDS Integers, Sequences, FiniteSets, TLC

\* ----------------------------------------------------------------- bounds
\* Largest per-image object count the database reports.
MaxCount == 2
\* Most rows GetPerImageObjectCounts returns in one population.
MaxRows == 2
\* Longest imKeys list handed to GetRandomObjects.
MaxSubset == 2
\* Most draws asked of GetRandomObjects (its N).
MaxN == 1
\* Width of the value vectors handed to SumToGroup, and largest entry.
MaxVal == 1
\* Readers running GetImagesInGroup concurrently.
NumThreads == 2

\* The image keys the database knows.
Keys == {1, 2, 3}
Counts == 0..MaxCount

\* ---------------------------------------------------------------- helpers
Range(s) == {s[i] : i \in DOMAIN s}

Min2(a, b) == IF a < b THEN a ELSE b

\* All orders in which the elements of S can be listed.
Perms(S) ==
    {s \in [1..Cardinality(S) -> S] : \A i, j \in 1..Cardinality(S) : i # j => s[i] # s[j]}

\* All sequences over S of length at most n.
SeqsUpTo(S, n) == UNION {[1..k -> S] : k \in 0..n}

\* The empty dict / empty list.
EmptyDict == <<>>

RECURSIVE SumSeq(_)
SumSeq(s) == IF s = <<>> THEN 0 ELSE s[1] + SumSeq(Tail(s))

RECURSIVE SumOver(_, _)
SumOver(f, S) ==
    IF S = {} THEN 0
    ELSE LET k == CHOOSE x \in S : TRUE IN f[k] + SumOver(f, S \ {k})

\* Python indexing arr[i]: defined for -len <= i < len.
PyInRange(arr, i) == -Len(arr) <= i /\ i < Len(arr)
PyAt(arr, i) == IF i < 0 THEN arr[Len(arr) + i + 1] ELSE arr[i + 1]

\* np.cumsum(xs): running sums, same length as xs.
CumSum(xs) == [i \in 1..Len(xs) |-> SumSeq(SubSeq(xs, 1, i))]

\* np.searchsorted(arr, v, 'right'): the number of elements <= v.
SearchSortedRight(arr, v) == Cardinality({i \in 1..Len(arr) : arr[i] <= v})

\* np.searchsorted(arr, v, 'left') on a sorted array: the first Python index
\* i with arr[i] >= v, that is the number of elements < v.
SearchSortedLeft(arr, v) == Cardinality({i \in 1..Len(arr) : arr[i] < v})

\* while arr[i] == arr[i-1]: i -= 1.  ok is FALSE when an index leaves the
\* array (IndexError).
RECURSIVE SkipRepeated(_, _)
SkipRepeated(arr, i) ==
    IF ~(PyInRange(arr, i) /\ PyInRange(arr, i - 1)) THEN [ok |-> FALSE, i |-> i]
    ELSE IF PyAt(arr, i) = PyAt(arr, i - 1) THEN SkipRepeated(arr, i - 1)
    ELSE [ok |-> TRUE, i |-> i]

\* ------------------------------------------------------------ environment
\* What db.GetGroupMaps() can answer: for each group name the image -> group
\* key map.  "Wells" is the three-well plate of the wildcard example, "Both"
\* has two images in one well and an image without a gene, "Hollow" has a
\* group with no image at all.
DbGroupNames == {"None", "Wells", "Both", "Hollow"}

DbForward(g) ==
    CASE g = "None" -> EmptyDict
      [] g = "Wells" ->
            [d \in {"Well"} |-> (1 :> <<"0", "A01">> @@ 2 :> <<"0", "A02">> @@ 3 :> <<"1", "A01">>)]
      [] g = "Both" ->
            ("Well" :> (1 :> <<"0", "A01">> @@ 2 :> <<"0", "A01">> @@ 3 :> <<"1", "A02">>)
             @@ "Gene" :> (1 :> <<"g1">> @@ 2 :> <<"g1">>))
      [] OTHER -> [d \in {"Gene"} |-> EmptyDict]

DbColNames(g) ==
    [d \in DOMAIN DbForward(g) |-> IF d = "Well" THEN <<"plate", "well">> ELSE <<"gene">>]

\* db.GetGroupMaps(reverse=True): group key -> the images of the group, as
\* a list (in ascending key order).
RECURSIVE SortedList(_)
SortedList(S) ==
    IF S = {} THEN <<>>
    ELSE LET m == CHOOSE x \in S : \A y \in S : x <= y IN <<m>> \o SortedList(S \ {m})

DbReverse(g) ==
    [d \in DOMAIN DbForward(g) |->
        [gk \in Range(DbForward(g)[d]) |->
            SortedList({k \in DOMAIN DbForward(g)[d] : DbForward(g)[d][k] = gk})]]

\* type(col) of a column value.
IntCols == {"0", "1"}
TypeOf(col) == IF col \in IntCols THEN "int" ELSE "str"

\* The filters of the properties file and what db.execute can answer.
Filters == {"f1"}
DbFilterResults == {{1, 2}, {2, 3}}

\* The databases the model is run against: the sets of image keys
\* GetAllImageKeys may return, the keys and counts of the rows of
\* GetPerImageObjectCounts, and the answers of GetGroupMaps.
DbAny ==
    [imageKeys |-> SUBSET Keys, rowKeys |-> Keys, rowCounts |-> Counts,
     groups |-> {"Wells", "Both"}]

DbCounts ==
    [imageKeys |-> SUBSET Keys, rowKeys |-> Keys, rowCounts |-> Counts,
     groups |-> {"Wells"}]

DbGroups ==
    [imageKeys |-> {Keys}, rowKeys |-> {1}, rowCounts |-> {1},
     groups |-> DbGroupNames]

DbSums ==
    [imageKeys |-> {Keys}, rowKeys |-> {1}, rowCounts |-> {1},
     groups |-> {"Wells", "Both"}]

\* ------------------------------------------------------------------ state
VARIABLES
    data,           \* self.data: {imKey: obCount}
    dataKeys,       \* the order in which self.data.keys() lists the keys
    groupMaps,      \* self.groupMaps
    revGroupMaps,   \* self.revGroupMaps
    groupColNames,  \* self.groupColNames
    groupColTypes,  \* self.groupColTypes
    cumSums,        \* self.cumSums
    obCount,        \* self.obCount
    keylist,        \* self.keylist
    filterkeys,     \* self.filterkeys
    pc,             \* where the running call stands ("idle": none runs)
    caller,         \* who called the running PopulateModel: "direct" or "query"
    nrows,          \* rows of GetPerImageObjectCounts consumed so far
    ret,            \* the outcome of the last call that ended
    entry,          \* the derived state when the running PopulateModel() began
    thr,            \* the concurrent readers of GetImagesInGroup
    dbExec          \* how often db.execute ran for each filter

derived ==
    <<data, dataKeys, groupMaps, revGroupMaps, groupColNames, groupColTypes,
      cumSums, obCount, keylist, filterkeys>>

control == <<pc, caller, nrows, ret, entry>>

conc == <<thr, dbExec>>

vars == <<derived, control, conc>>

NoRet == [op |-> "none", kind |-> "none"]

ThreadIds == 1..NumThreads

\* DataModel.__init__
InitDerived ==
    /\ data = EmptyDict
    /\ dataKeys = <<>>
    /\ groupMaps = EmptyDict
    /\ revGroupMaps = EmptyDict
    /\ groupColNames = EmptyDict
    /\ groupColTypes = EmptyDict
    /\ cumSums = <<>>
    /\ obCount = 0
    /\ keylist = <<>>
    /\ filterkeys = EmptyDict

ReaderIdle == [pc |-> "idle"]

InitConc ==
    /\ thr = [t \in ThreadIds |-> ReaderIdle]
    /\ dbExec = [f \in Filters |-> 0]

Init ==
    /\ InitDerived
    /\ pc = "idle"
    /\ caller = "none"
    /\ nrows = 0
    /\ ret = NoRet
    /\ entry = <<>>
    /\ InitConc

\* DataModel.IsEmpty
IsEmpty(d) == d = EmptyDict

\* ------------------------------------------------------------- population
\* How a call ends.  A raised exception unwinds to the caller of the public
\* method; a normal return of PopulateModel hands control back to the query
\* that called it through _if_empty_populate, if one did.
Raise(op, exc) ==
    /\ pc' = "idle"
    /\ ret' = [op |-> op, kind |-> "raise", exc |-> exc]
    /\ caller' = "none"
    /\ nrows' = 0

PopulateReturns(who) ==
    /\ pc' = IF who = "query" THEN "body" ELSE "idle"
    /\ ret' = IF who = "query" THEN NoRet ELSE [op |-> "PopulateModel", kind |-> "return"]
    /\ caller' = "none"
    /\ nrows' = 0

\* The call goes on at p.
Goto(p) ==
    /\ pc' = p
    /\ UNCHANGED <<ret, caller, nrows>>

\* DataModel.DeleteModel, as an update of the state.
DeleteModelEffect ==
    /\ data' = EmptyDict
    /\ dataKeys' = <<>>
    /\ groupMaps' = EmptyDict
    /\ cumSums' = <<>>
    /\ obCount' = 0
    /\ UNCHANGED <<revGroupMaps, groupColNames, groupColTypes, keylist, filterkeys>>

\* PopulateIsNoOp with the "already populated" test dropped.
PopulateIsNoOp_Dropped(delete_model, d) == FALSE

\* PopulateModel, lines 35-39: "No op if already populated".
PopulateIsNoOp(delete_model, d) == ~delete_model /\ ~IsEmpty(d)

\* The head of PopulateModel(delete_model), lines 35-39, for either caller.
\* entry remembers the derived state a call without delete_model found
\* populated.
PopulateHead(delete_model, who) ==
    /\ entry' = IF ~delete_model /\ ~IsEmpty(data) THEN derived ELSE <<>>
    /\ IF delete_model
         THEN /\ DeleteModelEffect
              /\ pc' = "db" /\ ret' = NoRet /\ caller' = who /\ nrows' = 0
         ELSE /\ UNCHANGED derived
              /\ IF PopulateIsNoOp(delete_model, data)
                   THEN PopulateReturns(who)
                   ELSE pc' = "db" /\ ret' = NoRet /\ caller' = who /\ nrows' = 0

\* A direct call of PopulateModel(delete_model).
PopulateModel ==
    /\ pc = "idle"
    /\ \E delete_model \in BOOLEAN : PopulateHead(delete_model, "direct")
    /\ UNCHANGED conc

\* Lines 41-43: without a database connection the error is logged and the
\* call returns normally.
PopulateNoDb ==
    /\ pc = "db"
    /\ PopulateReturns(caller)
    /\ UNCHANGED <<derived, entry, conc>>

\* Lines 45-46: db.CheckTables(), when the properties ask for it.
PopulateCheckTables ==
    /\ pc = "db"
    /\ \/ Raise("PopulateModel", "CheckTables")
       \/ Goto("keys")
    /\ UNCHANGED <<derived, entry, conc>>

\* Lines 48-52: every image key of the database gets the count 0.
PopulateImageKeys(db) ==
    /\ pc = "keys"
    /\ \/ /\ Raise("PopulateModel", "GetAllImageKeys")
          /\ UNCHANGED derived
       \/ /\ \E imKeys \in db.imageKeys :
                /\ data' = [k \in DOMAIN data \cup imKeys |-> IF k \in imKeys THEN 0 ELSE data[k]]
                /\ dataKeys' \in Perms(DOMAIN data \cup imKeys)
          /\ Goto("counts")
          /\ UNCHANGED <<groupMaps, revGroupMaps, groupColNames, groupColTypes,
                         cumSums, obCount, keylist, filterkeys>>
    /\ UNCHANGED <<entry, conc>>

\* Line 55: res = db.GetPerImageObjectCounts().
PopulateObjectCounts ==
    /\ pc = "counts"
    /\ \/ Raise("PopulateModel", "GetPerImageObjectCounts")
       \/ Goto("rows")
    /\ UNCHANGED <<derived, entry, conc>>

\* Lines 56-59, one turn of the loop: the row (key, count) is stored and
\* added to the total.
PopulateRow(db) ==
    /\ pc = "rows"
    /\ nrows < MaxRows
    /\ \E key \in db.rowKeys, count \in db.rowCounts :
          /\ data' = [k \in DOMAIN data \cup {key} |-> IF k = key THEN count ELSE data[k]]
          /\ IF key \in DOMAIN data THEN dataKeys' = dataKeys
                                    ELSE dataKeys' \in Perms(DOMAIN data \cup {key})
          /\ obCount' = obCount + count
    /\ nrows' = nrows + 1
    /\ UNCHANGED <<groupMaps, revGroupMaps, groupColNames, groupColTypes, cumSums,
                   keylist, filterkeys, pc, caller, ret, entry, conc>>

\* The cumulative sums of lines 64-66 over the key order kl.
BuildCumSums(d, kl) == <<0>> \o CumSum([i \in 1..Len(kl) |-> d[kl[i]]])

\* Lines 61-66, after the last row: the key list and the cumulative sums.
PopulateCumSums ==
    /\ pc = "rows"
    /\ keylist' = dataKeys
    /\ cumSums' = BuildCumSums(data, dataKeys)
    /\ pc' = "groups"
    /\ nrows' = 0
    /\ UNCHANGED <<data, dataKeys, groupMaps, revGroupMaps, groupColNames, groupColTypes,
                   obCount, filterkeys, caller, ret, entry, conc>>

\* Line 68: self.groupMaps, self.groupColNames = db.GetGroupMaps().
PopulateGroupMaps(db) ==
    /\ pc = "groups"
    /\ \/ /\ Raise("PopulateModel", "GetGroupMaps")
          /\ UNCHANGED <<groupMaps, groupColNames>>
       \/ /\ \E g \in db.groups :
                /\ groupMaps' = DbForward(g)
                /\ groupColNames' = DbColNames(g)
          /\ Goto("revgroups")
    /\ UNCHANGED <<data, dataKeys, revGroupMaps, groupColTypes, cumSums, obCount, keylist,
                   filterkeys, entry, conc>>

\* Line 69: self.revGroupMaps, _ = db.GetGroupMaps(reverse=True), of the
\* same database contents as line 68.
PopulateRevGroupMaps ==
    /\ pc = "revgroups"
    /\ \/ /\ Raise("PopulateModel", "GetGroupMaps")
          /\ UNCHANGED revGroupMaps
       \/ /\ \E g \in DbGroupNames :
                /\ DbForward(g) = groupMaps
                /\ revGroupMaps' = DbReverse(g)
          /\ Goto("coltypes")
    /\ UNCHANGED <<data, dataKeys, groupMaps, groupColNames, groupColTypes, cumSums, obCount,
                   keylist, filterkeys, entry, conc>>

\* The group key of the first item of a group's map (items()[0][1]).
FirstGroupKey(m) == m[CHOOSE k \in DOMAIN m : \A j \in DOMAIN m : k <= j]

\* Lines 70-71: the column types of every group, read off one of its group
\* keys; a group without any image has no first item (IndexError).
PopulateColTypes ==
    /\ pc = "coltypes"
    /\ IF \E group \in DOMAIN groupMaps : groupMaps[group] = EmptyDict
         THEN Raise("PopulateModel", "IndexError") /\ UNCHANGED groupColTypes
         ELSE /\ groupColTypes' =
                   [group \in DOMAIN groupColTypes \cup DOMAIN groupMaps |->
                      IF group \in DOMAIN groupMaps
                        THEN [i \in DOMAIN FirstGroupKey(groupMaps[group]) |->
                                 TypeOf(FirstGroupKey(groupMaps[group])[i])]
                        ELSE groupColTypes[group]]
              /\ PopulateReturns(caller)
    /\ UNCHANGED <<data, dataKeys, groupMaps, revGroupMaps, groupColNames, cumSums, obCount,
                   keylist, filterkeys, entry, conc>>

\* DataModel.DeleteModel, called directly (the reset).
DeleteModel ==
    /\ pc = "idle"
    /\ DeleteModelEffect
    /\ ret' = [op |-> "DeleteModel", kind |-> "return"]
    /\ entry' = <<>>
    /\ UNCHANGED <<pc, caller, nrows, conc>>

\* DataModel._if_empty_populate, the first statement of every query.
\* self.IsEmpty is the bound method, not its result, so the test is always
\* true and PopulateModel() is always called, to decide by itself.
IfEmptyPopulate ==
    /\ pc = "idle"
    /\ PopulateHead(FALSE, "query")
    /\ UNCHANGED conc

\* ---------------------------------------------------------------- sampling
\* A query ends: its outcome is r.
QueryEnds(r) ==
    /\ pc' = "idle"
    /\ ret' = r
    /\ entry' = <<>>
    /\ UNCHANGED <<caller, nrows, conc>>

IndexError == [ok |-> FALSE, exc |-> "IndexError"]

\* GetRandomObject, lines 97-107, for the drawn obIdx = t: the call of
\* db.GetObjectIDAtIndex(imKey, obIdx) it makes, or the exception it raises.
\* imIdx is kept for reference.
RandomObjectAt(t) ==
    LET found == SearchSortedLeft(cumSums, t)
        sk == SkipRepeated(cumSums, found)
    IN  IF ~sk.ok THEN IndexError
        ELSE IF ~PyInRange(dataKeys, sk.i - 1) THEN IndexError
        ELSE [ok |-> TRUE, t |-> t, imIdx |-> sk.i,
              imKey |-> PyAt(dataKeys, sk.i - 1),
              obIdx |-> t - PyAt(cumSums, sk.i - 1)]

\* SubsetObjectAt without the test "if index != 0": index 0 is treated like
\* the others, so sums[index-1] wraps to the last sum.
SubsetObjectAt_Unguarded(imKeys, sums, t) ==
    LET found == SearchSortedLeft(sums, t)
        sk == SkipRepeated(sums, found)
    IN  IF ~sk.ok THEN IndexError
        ELSE IF ~PyInRange(imKeys, sk.i) THEN IndexError
        ELSE [ok |-> TRUE, t |-> t, imIdx |-> sk.i,
              imKey |-> PyAt(imKeys, sk.i),
              obIdx |-> t - PyAt(sums, sk.i - 1)]

\* GetRandomObjects, lines 127-133, one turn of the loop for the drawn
\* obIdx = t over the local sums of imKeys.
SubsetObjectAt(imKeys, sums, t) ==
    LET found == SearchSortedLeft(sums, t)
        sk == IF found # 0 THEN SkipRepeated(sums, found) ELSE [ok |-> TRUE, i |-> 0]
    IN  IF ~sk.ok THEN IndexError
        ELSE IF ~PyInRange(imKeys, sk.i) THEN IndexError
        ELSE [ok |-> TRUE, t |-> t, imIdx |-> sk.i,
              imKey |-> PyAt(imKeys, sk.i),
              obIdx |-> IF found # 0 THEN t - PyAt(sums, sk.i - 1) ELSE t]

\* A draw's outcome as the outcome of the query op.
DrawOutcome(op, c) ==
    IF ~c.ok THEN [op |-> op, kind |-> "raise", exc |-> c.exc]
    ELSE [op |-> op, kind |-> "return", call |-> c]

\* GetRandomObject (after _if_empty_populate).  randint(1, 0) raises
\* ValueError.
GetRandomObject ==
    /\ pc = "body"
    /\ IF obCount < 1
         THEN QueryEnds([op |-> "GetRandomObject", kind |-> "raise", exc |-> "ValueError"])
         ELSE \E t \in 1..obCount : QueryEnds(DrawOutcome("GetRandomObject", RandomObjectAt(t)))
    /\ UNCHANGED derived

\* The outcome of GetRandomObjects(N, imKeys) after made draws.
SubsetReturns(N, imKeys, made) ==
    [op |-> "GetRandomObjectsIn", kind |-> "return", imKeys |-> imKeys, n |-> N,
     made |-> made]

\* np.cumsum([self.data[imKey] for imKey in imKeys]), line 122.
LocalSums(imKeys) == CumSum([i \in 1..Len(imKeys) |-> data[imKeys[i]]])

\* GetRandomObjects(N, imKeys) with a list of image keys, lines 119-126, up
\* to the loop: the empty results, the KeyError of an unknown image, or the
\* entry of the loop.
GetRandomObjectsIn ==
    /\ pc = "body"
    /\ \E N \in 0..MaxN, imKeys \in SeqsUpTo(Keys, MaxSubset) :
          IF imKeys = <<>>
            THEN QueryEnds(SubsetReturns(N, imKeys, 0))
          ELSE IF ~(Range(imKeys) \subseteq DOMAIN data)
            THEN QueryEnds([op |-> "GetRandomObjectsIn", kind |-> "raise", exc |-> "KeyError"])
          ELSE IF PyAt(LocalSums(imKeys), -1) < 1 \/ N = 0
            THEN QueryEnds(SubsetReturns(N, imKeys, 0))
          ELSE /\ pc' = "draw"
               /\ ret' = [SubsetReturns(N, imKeys, 0) EXCEPT !.kind = "running"]
               /\ entry' = <<>>
               /\ UNCHANGED <<caller, nrows, conc>>
    /\ UNCHANGED derived

\* Lines 126-134, one turn of the loop: a draw and its call of
\* db.GetObjectIDAtIndex, kept in ret.call.  After the last turn the list
\* is returned.
GetRandomObjectsDraw ==
    /\ pc = "draw"
    /\ LET sums == LocalSums(ret.imKeys)
       IN  \E t \in 1..PyAt(sums, -1) :
              LET c == SubsetObjectAt(ret.imKeys, sums, t)
              IN  IF ~c.ok
                    THEN Raise("GetRandomObjectsIn", c.exc)
                    ELSE /\ pc' = IF ret.made + 1 = ret.n THEN "idle" ELSE "draw"
                         /\ ret' = [op |-> "GetRandomObjectsIn",
                                    kind |-> IF ret.made + 1 = ret.n THEN "return"
                                             ELSE "running",
                                    imKeys |-> ret.imKeys, n |-> ret.n,
                                    made |-> ret.made + 1, call |-> c]
                         /\ UNCHANGED <<caller, nrows>>
    /\ UNCHANGED <<derived, entry, conc>>

\* ------------------------------------------------------------------ groups
Wildcard == "__ANY__"
NoFilter == "None"

\* The (group, groupKey) pairs the group queries are asked for: every group
\* key of the right width for "Well" and "Gene", with and without
\* wildcards, and a group no database has.
GroupQueries ==
    {<<"Well", <<p, w>> >> : p \in {"0", "1", Wildcard}, w \in {"A01", "A02", Wildcard}}
      \cup {<<"Gene", <<g>> >> : g \in {"g1", "g2", Wildcard}}
      \cup {<<"Plate", <<g>> >> : g \in {"p1", Wildcard}}

\* matches(key1, key2) of line 206-207 with any() for all().
Matches_Any(key1, key2) ==
    \E i \in 1..Min2(Len(key1), Len(key2)) : key1[i] = key2[i] \/ key2[i] = Wildcard

\* matches(key1, key2), lines 206-207; zip stops at the shorter key.
Matches(key1, key2) ==
    \A i \in 1..Min2(Len(key1), Len(key2)) : key1[i] = key2[i] \/ key2[i] = Wildcard

\* Lines 208-211: the lists of the matching group keys, concatenated in
\* the order the dict lists them.
RECURSIVE Accumulate(_, _, _)
Accumulate(rev, gkeys, groupKey) ==
    IF gkeys = {} THEN <<>>
    ELSE LET gkey == CHOOSE g \in gkeys : TRUE
         IN  (IF Matches(gkey, groupKey) THEN rev[gkey] ELSE <<>>)
               \o Accumulate(rev, gkeys \ {gkey}, groupKey)

\* GetImagesInGroup, lines 220-231.  out holds the elements of the
\* returned list or set.
GetImagesInGroupBody(op, group, groupKey, filter) ==
    LET r == [op |-> op, group |-> group, groupKey |-> groupKey, filter |-> filter]
    IN  IF ~(group \in DOMAIN revGroupMaps /\ groupKey \in DOMAIN revGroupMaps[group])
          THEN /\ QueryEnds(r @@ [kind |-> "return", out |-> {}])
               /\ UNCHANGED filterkeys
        ELSE LET imkeys == revGroupMaps[group][groupKey]
             IN  IF filter = NoFilter
                   THEN /\ QueryEnds(r @@ [kind |-> "return", out |-> Range(imkeys)])
                        /\ UNCHANGED filterkeys
                 ELSE IF filter \in DOMAIN filterkeys
                   THEN /\ QueryEnds(r @@ [kind |-> "return",
                                           out |-> Range(imkeys) \cap filterkeys[filter]])
                        /\ UNCHANGED filterkeys
                 ELSE \/ /\ QueryEnds(r @@ [kind |-> "raise", exc |-> "execute"])
                         /\ UNCHANGED filterkeys
                      \/ \E found \in DbFilterResults :
                            /\ filterkeys' = filterkeys @@ (filter :> found)
                            /\ QueryEnds(r @@ [kind |-> "return",
                                               out |-> Range(imkeys) \cap found])

GetImagesInGroup(queries) ==
    /\ pc = "body"
    /\ \E q \in queries, filter \in {NoFilter} \cup Filters :
          GetImagesInGroupBody("GetImagesInGroup", q[1], q[2], filter)
    /\ UNCHANGED <<data, dataKeys, groupMaps, revGroupMaps, groupColNames, groupColTypes,
                   cumSums, obCount, keylist>>

\* GetImagesInGroupWithWildcards, lines 203-215.  Without a wildcard it
\* calls GetImagesInGroup, whose _if_empty_populate finds the model
\* populated and goes on to the lookup; on a model still empty it starts
\* PopulateModel() anew, and the lookup follows as a query of its own.
GetImagesInGroupWithWildcards ==
    /\ pc = "body"
    /\ \E q \in GroupQueries, filter \in {NoFilter} \cup Filters :
          LET group == q[1]
              groupKey == q[2]
              r == [op |-> "GetImagesInGroupWithWildcards", group |-> group,
                    groupKey |-> groupKey, filter |-> filter]
          IN  IF Wildcard \in Range(groupKey)
                THEN /\ IF group \notin DOMAIN revGroupMaps
                          THEN QueryEnds(r @@ [kind |-> "raise", exc |-> "KeyError"])
                          ELSE QueryEnds(r @@ [kind |-> "return", out |->
                                   Range(Accumulate(revGroupMaps[group],
                                                    DOMAIN revGroupMaps[group], groupKey))])
                     /\ UNCHANGED filterkeys
              ELSE IF IsEmpty(data)
                THEN /\ PopulateHead(FALSE, "query")
                     /\ UNCHANGED conc
                ELSE GetImagesInGroupBody("GetImagesInGroupWithWildcards",
                                          group, groupKey, filter)
    /\ UNCHANGED <<data, dataKeys, groupMaps, revGroupMaps, groupColNames, groupColTypes,
                   cumSums, obCount, keylist>>

\* The value vectors handed to SumToGroup: all of one length.
VecWidth == 2
Vectors == [1..VecWidth -> 0..MaxVal]
ZeroVector(n) == [i \in 1..n |-> 0]
AddVectors(a, b) == [i \in DOMAIN a |-> a[i] + b[i]]

\* Lines 191-193: the vectors of the images ks added to groupData.
RECURSIVE AddToGroups(_, _, _, _)
AddToGroups(groupData, fwd, imdata, ks) ==
    IF ks = {} THEN groupData
    ELSE LET imKey == CHOOSE k \in ks : TRUE
         IN  AddToGroups([groupData EXCEPT ![fwd[imKey]] = AddVectors(@, imdata[imKey])],
                         fwd, imdata, ks \ {imKey})

\* SumToGroup(imdata, group), lines 185-195.  imdata.values()[0] of an
\* empty dict raises IndexError; a group or an image the forward map does
\* not know raises KeyError.
SumToGroup ==
    /\ pc = "body"
    /\ \E group \in {"Well", "Gene", "Plate"}, ks \in SUBSET Keys :
        \E imdata \in [ks -> Vectors] :
          LET r == [op |-> "SumToGroup", group |-> group, imdata |-> imdata]
          IN  IF ks = {}
                THEN QueryEnds(r @@ [kind |-> "raise", exc |-> "IndexError"])
              ELSE IF ~(group \in DOMAIN groupMaps /\ ks \subseteq DOMAIN groupMaps[group])
                THEN QueryEnds(r @@ [kind |-> "raise", exc |-> "KeyError"])
              ELSE LET fwd == groupMaps[group]
                       nvals == VecWidth
                       zeros == [gk \in {fwd[k] : k \in ks} |-> ZeroVector(nvals)]
                   IN  QueryEnds(r @@ [kind |-> "return",
                                       out |-> AddToGroups(zeros, fwd, imdata, ks)])
    /\ UNCHANGED derived

\* ------------------------------------------------------ concurrent readers
\* GetImagesInGroup run by several readers at once on a populated model
\* (_if_empty_populate finds it populated).  Python switches threads
\* between bytecodes and while db.execute waits for the database, so the
\* test of line 227, the assignment of line 228 and the intersection of
\* line 229 are separate steps.
ReaderQueries == {<<"Well", <<"0", "A01">> >>, <<"Well", <<"1", "A01">> >>}

\* Lines 219-226: the lookup, and the test "filter is not None".
ReaderCall(t) ==
    /\ thr[t].pc \in {"idle", "done"}
    /\ \E q \in ReaderQueries, filter \in {NoFilter} \cup Filters :
          IF ~(q[1] \in DOMAIN revGroupMaps /\ q[2] \in DOMAIN revGroupMaps[q[1]])
            THEN thr' = [thr EXCEPT ![t] = [pc |-> "done", filter |-> NoFilter, out |-> {}]]
          ELSE IF filter = NoFilter
            THEN thr' = [thr EXCEPT ![t] = [pc |-> "done", filter |-> NoFilter,
                                            out |-> Range(revGroupMaps[q[1]][q[2]])]]
          ELSE thr' = [thr EXCEPT ![t] = [pc |-> "test", filter |-> filter,
                                          imkeys |-> Range(revGroupMaps[q[1]][q[2]])]]
    /\ UNCHANGED <<derived, control, dbExec>>

\* Line 227: if filter not in self.filterkeys.keys().
ReaderTest(t) ==
    /\ thr[t].pc = "test"
    /\ thr' = [thr EXCEPT ![t].pc =
                  IF thr[t].filter \in DOMAIN filterkeys THEN "intersect" ELSE "fill"]
    /\ UNCHANGED <<derived, control, dbExec>>

\* Line 228: self.filterkeys[filter] = set(db.execute(...)).
ReaderFill(t) ==
    /\ thr[t].pc = "fill"
    /\ \E found \in DbFilterResults :
          filterkeys' = [f \in DOMAIN filterkeys \cup {thr[t].filter} |->
                            IF f = thr[t].filter THEN found ELSE filterkeys[f]]
    /\ dbExec' = [dbExec EXCEPT ![thr[t].filter] = @ + 1]
    /\ thr' = [thr EXCEPT ![t].pc = "intersect"]
    /\ UNCHANGED <<data, dataKeys, groupMaps, revGroupMaps, groupColNames, groupColTypes,
                   cumSums, obCount, keylist, control>>

\* Lines 229-231: the intersection with the cached set, and the return.
\* used remembers the cached set the reader intersected with.
ReaderIntersect(t) ==
    /\ thr[t].pc = "intersect"
    /\ thr' = [thr EXCEPT ![t] = [pc |-> "done", filter |-> thr[t].filter,
                                  used |-> filterkeys[thr[t].filter],
                                  out |-> thr[t].imkeys \cap filterkeys[thr[t].filter]]]
    /\ UNCHANGED <<derived, control, dbExec>>

\* A populated model: the state PopulateModel leaves when the database has
\* one object, in its first image.
ReaderCounts == [k \in Keys |-> IF k = 1 THEN 1 ELSE 0]

InitReaders ==
    /\ data = ReaderCounts
    /\ dataKeys = SortedList(Keys)
    /\ keylist = SortedList(Keys)
    /\ cumSums = BuildCumSums(ReaderCounts, SortedList(Keys))
    /\ obCount = 1
    /\ \E g \in {"Wells", "Both"} :
          /\ groupMaps = DbForward(g)
          /\ groupColNames = DbColNames(g)
          /\ revGroupMaps = DbReverse(g)
          /\ groupColTypes = [group \in DOMAIN DbForward(g) |->
                                 [i \in DOMAIN FirstGroupKey(DbForward(g)[group]) |->
                                     TypeOf(FirstGroupKey(DbForward(g)[group])[i])]]
    /\ filterkeys = EmptyDict
    /\ pc = "idle"
    /\ caller = "none"
    /\ nrows = 0
    /\ ret = [op |-> "PopulateModel", kind |-> "return"]
    /\ entry = <<>>
    /\ InitConc

\* --------------------------------------------------------- specifications
\* PopulateModel against the database db, with DeleteModel and the entry
\* of the queries.
Lifecycle(db) ==
    \/ PopulateModel
    \/ PopulateNoDb
    \/ PopulateCheckTables
    \/ PopulateImageKeys(db)
    \/ PopulateObjectCounts
    \/ PopulateRow(db)
    \/ PopulateCumSums
    \/ PopulateGroupMaps(db)
    \/ PopulateRevGroupMaps
    \/ PopulateColTypes
    \/ DeleteModel
    \/ IfEmptyPopulate

\* The life of the model: population, reset, and the query that caches.
Next == Lifecycle(DbAny) \/ GetImagesInGroup(ReaderQueries)

Spec == Init /\ [][Next]_vars

\* The global draw over every distribution of counts, through populations
\* and resets.
NextSample == Lifecycle(DbCounts) \/ GetRandomObject

SpecSample == Init /\ [][NextSample]_vars

\* The model is populated by its first query and then only queried.
FirstUse(db) ==
    \/ IfEmptyPopulate
    \/ PopulateNoDb
    \/ PopulateCheckTables
    \/ PopulateImageKeys(db)
    \/ PopulateObjectCounts
    \/ PopulateRow(db)
    \/ PopulateCumSums
    \/ PopulateGroupMaps(db)
    \/ PopulateRevGroupMaps
    \/ PopulateColTypes

\* The subset draw over every distribution of counts.
NextSubset == FirstUse(DbCounts) \/ GetRandomObjectsIn \/ GetRandomObjectsDraw

SpecSubset == Init /\ [][NextSubset]_vars

\* The group lookups over every group map.
NextGroup ==
    Lifecycle(DbGroups) \/ GetImagesInGroup(GroupQueries) \/ GetImagesInGroupWithWildcards

SpecGroup == Init /\ [][NextGroup]_vars

\* The aggregation over the group maps.
NextSums == Lifecycle(DbSums) \/ SumToGroup

SpecSums == Init /\ [][NextSums]_vars

\* Concurrent readers of a populated model.
NextReaders ==
    \E t \in ThreadIds : ReaderCall(t) \/ ReaderTest(t) \/ ReaderFill(t) \/ ReaderIntersect(t)

SpecReaders == InitReaders /\ [][NextReaders]_vars

\* ----------------------------------------------------------------- claims
Last(arr) == arr[Len(arr)]

\* The entity index is whole: the cumulative sums cover the keys of the
\* dict in its order and end at the total.
IndexWhole ==
    /\ Len(cumSums) = Len(dataKeys) + 1
    /\ Range(dataKeys) = DOMAIN data
    /\ obCount = Last(cumSums)

\* A call of db.GetObjectIDAtIndex made by a global draw names the image
\* whose interval of the cumulative sums (in the order of keylist)
\* contains the drawn t, and the rank of t in it.
GlobalCallRight(c) ==
    /\ c.t \in 1..obCount
    /\ c.imKey \in DOMAIN data
    /\ data[c.imKey] > 0
    /\ \E j \in 1..Len(keylist) :
          /\ j + 1 \in DOMAIN cumSums
          /\ keylist[j] = c.imKey
          /\ cumSums[j] < c.t /\ c.t <= cumSums[j + 1]
          /\ c.obIdx = c.t - cumSums[j]
    /\ 1 <= c.obIdx /\ c.obIdx <= data[c.imKey]

\* C1: the call of db.GetObjectIDAtIndex a global draw makes is for an
\* image with count > 0, the image whose cumulative interval contains the
\* drawn t, with rank t - cumulative[i-1] in 1..count; and on a whole index
\* with total > 0 the draw does make its call.
C1_GlobalDrawResolves ==
    (pc = "idle" /\ ret.op = "GetRandomObject") =>
        /\ ret.kind = "return" => GlobalCallRight(ret.call)
        /\ (obCount >= 1 /\ IndexWhole) => ret.kind = "return"

\* A global draw of the last object of a three-image model whose first and
\* last images are empty.
C1_Witness ==
    /\ pc = "idle" /\ ret.op = "GetRandomObject" /\ ret.kind = "return"
    /\ Len(keylist) = 3
    /\ data[keylist[1]] = 0 /\ data[keylist[3]] = 0
    /\ ret.call.t = obCount
    /\ ret.call.imKey = keylist[2]

\* The counts of the images of imKeys before position j.
LocalBefore(imKeys, j) == SumSeq([i \in 1..(j - 1) |-> data[imKeys[i]]])

\* A call made by a subset draw names the supplied image whose interval of
\* the local cumulative sum contains the drawn t, and the rank of t in it.
SubsetCallRight(imKeys, c) ==
    LET j == c.imIdx + 1
    IN  /\ c.t \in 1..LocalBefore(imKeys, Len(imKeys) + 1)
        /\ j \in DOMAIN imKeys
        /\ c.imKey = imKeys[j]
        /\ data[c.imKey] > 0
        /\ LocalBefore(imKeys, j) < c.t
        /\ c.t <= LocalBefore(imKeys, j + 1)
        /\ c.obIdx = c.t - LocalBefore(imKeys, j)
        /\ 1 <= c.obIdx /\ c.obIdx <= data[c.imKey]

\* C2: every draw of GetRandomObjects(N, imKeys) over a non-empty list of
\* known images whose counts sum to at least 1 calls db.GetObjectIDAtIndex
\* for a supplied image with count > 0, the one whose interval of the local
\* cumulative sum contains the drawn t, with a rank in 1..count; all N
\* draws are made, and none raises.
C2_SubsetDrawResolves ==
    (pc \in {"idle", "draw"} /\ ret.op = "GetRandomObjectsIn") =>
        /\ ret.kind = "raise" => ret.exc = "KeyError"
        /\ (ret.kind \in {"running", "return"} /\ ret.made >= 1) =>
              SubsetCallRight(ret.imKeys, ret.call)
        /\ ret.kind = "return" =>
              ret.made = IF Range(ret.imKeys) \subseteq DOMAIN data
                              /\ LocalBefore(ret.imKeys, Len(ret.imKeys) + 1) >= 1
                           THEN ret.n ELSE 0

\* A subset draw whose first image has no object.
C2_Witness ==
    /\ pc = "idle" /\ ret.op = "GetRandomObjectsIn" /\ ret.kind = "return"
    /\ Len(ret.imKeys) >= 2
    /\ data[ret.imKeys[1]] = 0
    /\ ret.made >= 1

\* C3: in every populated state the total equals the sum of the counts and
\* the last cumulative sum; the cumulative sums have length N+1, start at 0
\* and never decrease.
C3_TotalMatchesCounts ==
    (pc = "idle" /\ ~IsEmpty(data)) =>
        /\ obCount = SumOver(data, DOMAIN data)
        /\ Len(cumSums) = Cardinality(DOMAIN data) + 1
        /\ cumSums[1] = 0
        /\ Last(cumSums) = obCount
        /\ \A i \in 1..(Len(cumSums) - 1) : cumSums[i] <= cumSums[i + 1]

\* C4: after DeleteModel every piece of derived state has its initial
\* empty value.
C4_ResetClearsAll ==
    (pc = "idle" /\ ret.op = "DeleteModel") => InitDerived

\* C5: a population that failed leaves the model empty.
C5_FailedPopulateLeavesEmpty ==
    (pc = "idle" /\ ret.op = "PopulateModel" /\ ret.kind = "raise") => IsEmpty(data)

\* C6: PopulateModel() without delete_model on a populated model, called
\* directly or by a query through _if_empty_populate, leaves the derived
\* state as it found it.
C6_PopulateIdempotent ==
    (entry # <<>> /\ pc \in {"idle", "body"}) => derived = entry

\* PopulateModel() has returned on a model that holds objects.
C6_Witness ==
    /\ pc = "idle" /\ ret.op = "PopulateModel" /\ ret.kind = "return"
    /\ entry # <<>>
    /\ obCount > 0
    /\ filterkeys # EmptyDict

\* C7: GetImagesInGroup on a group the model does not know is an error.
C7_UnknownGroupIsError ==
    (pc = "idle" /\ ret.op = "GetImagesInGroup" /\ ret.group \notin DOMAIN revGroupMaps)
        => ret.kind = "raise"

\* The images of the stored group keys of a group that equal groupKey on
\* every position that is not a wildcard.
WildcardUnion(rev, groupKey) ==
    {e \in Keys : \E gkey \in DOMAIN rev :
        /\ e \in Range(rev[gkey])
        /\ \A i \in DOMAIN groupKey :
              groupKey[i] # Wildcard => (i \in DOMAIN gkey /\ gkey[i] = groupKey[i])}

\* What GetImagesInGroup answers, read off the state after the call.
ExactLookup(group, groupKey, filter) ==
    IF group \in DOMAIN revGroupMaps /\ groupKey \in DOMAIN revGroupMaps[group]
      THEN IF filter = NoFilter THEN Range(revGroupMaps[group][groupKey])
           ELSE Range(revGroupMaps[group][groupKey]) \cap filterkeys[filter]
      ELSE {}

\* C8: with a wildcard in the group key, GetImagesInGroupWithWildcards on a
\* known group returns exactly the images of the stored group keys that
\* equal the query on all other positions; without one it returns what
\* GetImagesInGroup returns.
C8_WildcardUnion ==
    (pc = "idle" /\ ret.op = "GetImagesInGroupWithWildcards") =>
        IF Wildcard \in Range(ret.groupKey)
          THEN ret.group \in DOMAIN revGroupMaps =>
                  /\ ret.kind = "return"
                  /\ ret.out = WildcardUnion(revGroupMaps[ret.group], ret.groupKey)
          ELSE ret.kind = "return" =>
                  ret.out = ExactLookup(ret.group, ret.groupKey, ret.filter)

\* The wildcard example: (__ANY__, A01) over (0,A01), (0,A02), (1,A01).
C8_Witness ==
    /\ pc = "idle" /\ ret.op = "GetImagesInGroupWithWildcards" /\ ret.kind = "return"
    /\ ret.groupKey = <<Wildcard, "A01">>
    /\ DOMAIN revGroupMaps[ret.group] = {<<"0", "A01">>, <<"0", "A02">>, <<"1", "A01">>}
    /\ ret.out = {1, 3}

\* The result SumToGroup owes for imdata: a vector for each group key of
\* the images of imdata, the sum of their vectors.
SumToGroupRight(fwd, imdata, out) ==
    /\ DOMAIN out = {fwd[k] : k \in DOMAIN imdata}
    /\ \A gk \in DOMAIN out : \A i \in 1..VecWidth :
          out[gk][i] =
              SumOver([k \in DOMAIN imdata |-> imdata[k][i]],
                      {k \in DOMAIN imdata : fwd[k] = gk})

\* C9: SumToGroup over vectors of one length returns, for the group keys
\* of the input images, the element-wise sums of their vectors; an image
\* without a group is an error.
C9_SumToGroup ==
    (pc = "idle" /\ ret.op = "SumToGroup") =>
        IF ret.group \in DOMAIN groupMaps
             /\ DOMAIN ret.imdata \subseteq DOMAIN groupMaps[ret.group]
          THEN /\ ret.kind = "return"
               /\ SumToGroupRight(groupMaps[ret.group], ret.imdata, ret.out)
          ELSE ret.kind = "raise"

\* SumToGroup does what C9 says whenever imdata holds at least one image.
SumToGroupOnImages ==
    (pc = "idle" /\ ret.op = "SumToGroup" /\ DOMAIN ret.imdata # {}) =>
        IF ret.group \in DOMAIN groupMaps
             /\ DOMAIN ret.imdata \subseteq DOMAIN groupMaps[ret.group]
          THEN /\ ret.kind = "return"
               /\ SumToGroupRight(groupMaps[ret.group], ret.imdata, ret.out)
          ELSE ret.kind = "raise"

\* C10: the database is asked for a filter's images at most once, and all
\* readers that used a filter intersected with the same cached set.
C10_FilterFetchedOnce ==
    /\ \A f \in Filters : dbExec[f] <= 1
    /\ \A t, u \in ThreadIds :
          (thr[t].pc = "done" /\ thr[u].pc = "done"
             /\ thr[t].filter # NoFilter /\ thr[t].filter = thr[u].filter)
          => thr[t].used = thr[u].used

====
